---- MODULE Spec2Model ----
(***************************************************************************)
(* A model of package pkce (RFC 7636 proof keys): the Key configuration    *)
(* object, its Options, and the validation functions they rest on.         *)
(*                                                                         *)
(* Byte slices and strings are sequences of byte values (0..255); a nil    *)
(* and an empty slice are both the empty sequence.  Methods and errors are *)
(* TLA+ strings, compared by equality as the Go code compares them.        *)
(***************************************************************************)
EXTENDS Integers, Sequences, FiniteSets, TLC

VARIABLES
    key,      \* the Key struct: challengeMethod, codeVerifierLen, codeVerifier
    shared,   \* TRUE while key.codeVerifier is the caller's own slice
    prev,     \* the Key as it was when the last call began
    origin,   \* how the Key came to be: "New" or the zero value "Key{}"
    op,       \* the last call made: its name and its arguments
    ret,      \* what the last call returned
    rand      \* rand.Reader: the values its coming draws will yield

vars == <<key, shared, prev, origin, op, ret, rand>>

----------------------------------------------------------------------------
(* Bounds of the model.                                                    *)

\* longest option list handed to New
MaxOpts == 2
\* the outcomes of the random source that are tried are those numbered
\* 0..MaxReader, out of all of them
MaxReader == 1
\* how many draws of the random source a behaviour of a Key follows: room
\* for two verifiers of the greatest length
MaxDraws == 256
\* how many draws a behaviour of GenerateCodeVerifier alone follows
GenDraws == 130

----------------------------------------------------------------------------
(* Constants of the package.                                               *)

Plain == "plain"
S256 == "S256"

verifierMinLen == 43
verifierMaxLen == 128

alpha == [i \in 1..26 |-> 64 + i] \o [i \in 1..26 |-> 96 + i]
digit == [i \in 1..10 |-> 47 + i]
unreserved == alpha \o digit \o <<45, 46, 95, 126>>

NoErr == "nil"
ErrMethodDowngrade == "ErrMethodDowngrade"
ErrMethodNotSupported == "ErrMethodNotSupported"
ErrVerifierCharacters == "ErrVerifierCharacters"
ErrVerifierLength == "ErrVerifierLength"

----------------------------------------------------------------------------
(* Validation.                                                             *)

\* validVerifierChar without "~" among the four symbols
validVerifierChar_NoTilde(c) ==
    IF \/ (97 <= c /\ c <= 122)
       \/ (65 <= c /\ c <= 90)
       \/ (48 <= c /\ c <= 57)
    THEN TRUE
    ELSE c \in {45, 46, 95}

validVerifierChar(c) ==
    IF \/ (97 <= c /\ c <= 122)
       \/ (65 <= c /\ c <= 90)
       \/ (48 <= c /\ c <= 57)
    THEN TRUE
    ELSE c \in {45, 46, 95, 126}

\* validateVerifierLen checking the lower limit only
validateVerifierLen_NoUpper(n) ==
    IF n < verifierMinLen
    THEN ErrVerifierLength
    ELSE NoErr

validateVerifierLen(n) ==
    IF n < verifierMinLen \/ n > verifierMaxLen
    THEN ErrVerifierLength
    ELSE NoErr

validateCodeVerifierCharacters(chars) ==
    IF \E i \in 1..Len(chars) : ~validVerifierChar(chars[i])
    THEN ErrVerifierCharacters
    ELSE NoErr

\* validateCodeVerifier checking the characters before the length
validateCodeVerifier_CharsFirst(verifier) ==
    IF validateCodeVerifierCharacters(verifier) # NoErr
    THEN validateCodeVerifierCharacters(verifier)
    ELSE IF validateVerifierLen(Len(verifier)) # NoErr
         THEN validateVerifierLen(Len(verifier))
         ELSE NoErr

validateCodeVerifier(verifier) ==
    IF validateVerifierLen(Len(verifier)) # NoErr
    THEN validateVerifierLen(Len(verifier))
    ELSE IF validateCodeVerifierCharacters(verifier) # NoErr
         THEN validateCodeVerifierCharacters(verifier)
         ELSE NoErr

----------------------------------------------------------------------------
(* Generation.  Every rand.Int(rand.Reader, 66) is a draw of any value of  *)
(* 0..65, independent of the draws before it; its error is discarded.  A   *)
(* reader is the sequence of the values the coming draws yield, in order:  *)
(* any sequence over 0..65.  A draw takes the first value and leaves the   *)
(* rest to the draws that follow.                                          *)

\* the value of the i-th coming draw
RandInt(reader, i) == reader[i]

\* the reader after n draws were taken from it
Consume(reader, n) == SubSeq(reader, n + 1, Len(reader))

\* out[i] = unreserved[j], j the i-th draw.  The callers pass n = 0 (the zero
\* Key) or a validated n; make([]byte, n) panics for n < 0, which no caller
\* reaches.
generateCodeVerifier(n, reader) ==
    [i \in 1..n |-> unreserved[RandInt(reader, i) + 1]]

----------------------------------------------------------------------------
(* The arguments callers pass, drawn from small sets.                      *)

Rep(c, n) == [i \in 1..n |-> c]

MethodInputs == {Plain, S256, "", "not-a-method"}

\* The outcomes of the random source, numbered: every sequence of len values
\* of 0..65 is Outcome(s, len) for some s.  The last digit of s to the base
\* 66 is added to every draw and the digits before it to the first draw, to
\* the second and so on, each to its own; outcome 0 is 0, 1, .., 65, 0, ..
RECURSIVE Digit(_, _)
Digit(s, i) ==
    IF s = 0 THEN 0
    ELSE IF i = 1 THEN s % 66 ELSE Digit(s \div 66, i - 1)

Outcome(s, len) ==
    [i \in 1..len |-> ((i - 1) + (s % 66) + Digit(s \div 66, i)) % 66]

\* the readers tried, each holding the values of its first len draws
Readers(len) == {Outcome(s, len) : s \in 0..MaxReader}

\* the readers the behaviours of a Key start with
RandStreams == Readers(MaxDraws)

LenInputs == {-10, 42, 43, 100, 128, 129}

VerifierInputs ==
    { <<>>,                          \* empty
      <<121, 111, 108, 111>>,        \* "yolo"
      <<33>>,                        \* "!": too short and a disallowed byte
      Rep(97, 42),                   \* one byte too short
      Rep(97, 43),
      Rep(98, 44),
      Rep(97, 128),
      Rep(97, 129),                  \* one byte too long
      Rep(97, 43) \o <<33>>,         \* valid length, trailing "!"
      Rep(97, 42) \o <<195, 169>> }  \* valid length, a two-byte UTF-8 rune

\* the verifiers presented to Key.VerifyCodeVerifier, besides the Key's own
CandidateInputs ==
    { Rep(97, 42), Rep(97, 43), Rep(97, 43) \o <<33>>,
      generateCodeVerifier(verifierMinLen,
                           Rep(Len(unreserved) - 1, verifierMinLen)) }

\* the vectors of the package's tests, as bytes

\* "6et_m_LBa_8A-lHGANCGR0a6KATHyhr~5RU_CskUaaj"
TestVerifier43 ==
    << 54, 101, 116, 95, 109, 95, 76, 66, 97, 95, 56, 65, 45, 108, 72, 71,
       65, 78, 67, 71, 82, 48, 97, 54, 75, 65, 84, 72, 121, 104, 114, 126,
       53, 82, 85, 95, 67, 115, 107, 85, 97, 97, 106 >>

\* "1u1qURRaY4QPquG83Yu2fnyEYp4d0TLhXyj6AnaEcGQ"
TestChallenge43 ==
    << 49, 117, 49, 113, 85, 82, 82, 97, 89, 52, 81, 80, 113, 117, 71, 56,
       51, 89, 117, 50, 102, 110, 121, 69, 89, 112, 52, 100, 48, 84, 76, 104,
       88, 121, 106, 54, 65, 110, 97, 69, 99, 71, 81 >>

\* the 128-character verifier "-1Tumv7s3D22ko6E...LbTK61Hs"
TestVerifier128 ==
    << 45, 49, 84, 117, 109, 118, 55, 115, 51, 68, 50, 50, 107, 111, 54, 69,
       106, 116, 45, 104, 72, 88, 54, 108, 121, 49, 120, 76, 114, 118, 73, 108,
       76, 101, 115, 73, 113, 74, 83, 53, 78, 119, 45, 65, 105, 83, 74, 98,
       83, 67, 79, 57, 51, 70, 98, 76, 85, 86, 70, 118, 106, 107, 74, 88,
       100, 68, 53, 115, 108, 117, 101, 69, 70, 83, 57, 117, 98, 126, 79, 101,
       126, 115, 73, 99, 121, 108, 119, 117, 97, 118, 51, 49, 106, 76, 70, 120,
       82, 126, 81, 68, 121, 80, 81, 65, 107, 103, 82, 50, 71, 49, 81, 79,
       116, 73, 74, 80, 88, 81, 79, 68, 76, 98, 84, 75, 54, 49, 72, 115 >>

\* "EF-_M9nkOE6p88FdlYXUHkBv96MeV56C_Dsqk9DGlxw"
TestChallenge128 ==
    << 69, 70, 45, 95, 77, 57, 110, 107, 79, 69, 54, 112, 56, 56, 70, 100,
       108, 89, 88, 85, 72, 107, 66, 118, 57, 54, 77, 101, 86, 53, 54, 67,
       95, 68, 115, 113, 107, 57, 68, 71, 108, 120, 119 >>

\* "this-is-not-the-verifier-you-are-looking-for": valid, 44 characters
NotTheVerifier ==
    << 116, 104, 105, 115, 45, 105, 115, 45, 110, 111, 116, 45, 116, 104, 101, 45,
       118, 101, 114, 105, 102, 105, 101, 114, 45, 121, 111, 117, 45, 97, 114, 101,
       45, 108, 111, 111, 107, 105, 110, 103, 45, 102, 111, 114 >>

\* "not-the-verifier-you-are-looking-for": 36 characters
NotTheVerifierShort ==
    << 110, 111, 116, 45, 116, 104, 101, 45, 118, 101, 114, 105, 102, 105, 101, 114,
       45, 121, 111, 117, 45, 97, 114, 101, 45, 108, 111, 111, 107, 105, 110, 103,
       45, 102, 111, 114 >>

\* "this-is-not-the-verifier-you-are-looking-for!": a disallowed byte
NotTheVerifierBang == NotTheVerifier \o <<33>>

TestVerifiers ==
    {TestVerifier43, TestVerifier128, NotTheVerifier, NotTheVerifierShort,
     NotTheVerifierBang}

\* the bytes a caller may later write into a slice it handed over
WritePositions == {1, 43}
WriteBytes == {122, 33}

----------------------------------------------------------------------------
(* crypto/sha256 and encoding/base64 as the package uses them.  SHA-256    *)
(* (FIPS 180-4) works on 32-bit words, kept here as pairs <<high 16 bits,  *)
(* low 16 bits>> because a word does not fit a TLC integer.                *)

RECURSIVE BitXor(_, _, _)
BitXor(a, b, bits) ==
    IF bits = 0 THEN 0
    ELSE ((a + b) % 2) + 2 * BitXor(a \div 2, b \div 2, bits - 1)

RECURSIVE BitAnd(_, _, _)
BitAnd(a, b, bits) ==
    IF bits = 0 THEN 0
    ELSE ((a % 2) * (b % 2)) + 2 * BitAnd(a \div 2, b \div 2, bits - 1)

XorNibble == [a \in 0..15 |-> [b \in 0..15 |-> BitXor(a, b, 4)]]
AndNibble == [a \in 0..15 |-> [b \in 0..15 |-> BitAnd(a, b, 4)]]

Xor16(a, b) ==
    XorNibble[a % 16][b % 16]
    + 16 * XorNibble[(a \div 16) % 16][(b \div 16) % 16]
    + 256 * XorNibble[(a \div 256) % 16][(b \div 256) % 16]
    + 4096 * XorNibble[a \div 4096][b \div 4096]

And16(a, b) ==
    AndNibble[a % 16][b % 16]
    + 16 * AndNibble[(a \div 16) % 16][(b \div 16) % 16]
    + 256 * AndNibble[(a \div 256) % 16][(b \div 256) % 16]
    + 4096 * AndNibble[a \div 4096][b \div 4096]

WordXor(x, y) == <<Xor16(x[1], y[1]), Xor16(x[2], y[2])>>
WordAnd(x, y) == <<And16(x[1], y[1]), And16(x[2], y[2])>>
WordNot(x) == <<65535 - x[1], 65535 - x[2]>>

WordAdd(x, y) ==
    <<(x[1] + y[1] + ((x[2] + y[2]) \div 65536)) % 65536, (x[2] + y[2]) % 65536>>

\* rotate right by n, 0 <= n < 32
RotR(x, n) ==
    LET y == IF n >= 16 THEN <<x[2], x[1]>> ELSE x
        p == 2 ^ (n % 16)
        q == 2 ^ (16 - (n % 16))
    IN  <<(y[1] \div p) + (y[2] % p) * q, (y[2] \div p) + (y[1] % p) * q>>

\* shift right by n, 0 <= n < 16
ShR(x, n) ==
    LET p == 2 ^ n
        q == 2 ^ (16 - n)
    IN  <<x[1] \div p, (x[2] \div p) + (x[1] % p) * q>>

BigSigma0(x) == WordXor(WordXor(RotR(x, 2), RotR(x, 13)), RotR(x, 22))
BigSigma1(x) == WordXor(WordXor(RotR(x, 6), RotR(x, 11)), RotR(x, 25))
SmallSigma0(x) == WordXor(WordXor(RotR(x, 7), RotR(x, 18)), ShR(x, 3))
SmallSigma1(x) == WordXor(WordXor(RotR(x, 17), RotR(x, 19)), ShR(x, 10))
ChWord(x, y, z) == WordXor(WordAnd(x, y), WordAnd(WordNot(x), z))
MajWord(x, y, z) == WordXor(WordXor(WordAnd(x, y), WordAnd(x, z)), WordAnd(y, z))

sha256K ==
    <<
      <<17034, 12184>>, <<28983, 17553>>, <<46528, 64463>>, <<59829, 56229>>,
      <<14678, 49755>>, <<23025, 4593>>, <<37439, 33444>>, <<43804, 24277>>,
      <<55303, 43672>>, <<4739, 23297>>, <<9265, 34238>>, <<21772, 32195>>,
      <<29374, 23924>>, <<32990, 45566>>, <<39900, 1703>>, <<49563, 61812>>,
      <<58523, 27073>>, <<61374, 18310>>, <<4033, 40390>>, <<9228, 41420>>,
      <<11753, 11375>>, <<19060, 33962>>, <<23728, 43484>>, <<30457, 35034>>,
      <<38974, 20818>>, <<43057, 50797>>, <<45059, 10184>>, <<48985, 32711>>,
      <<50912, 3059>>, <<54695, 37191>>, <<1738, 25425>>, <<5161, 10599>>,
      <<10167, 2693>>, <<11803, 8504>>, <<19756, 28156>>, <<21304, 3347>>,
      <<25866, 29524>>, <<30314, 2747>>, <<33218, 51502>>, <<37490, 11397>>,
      <<41663, 59553>>, <<43034, 26187>>, <<49739, 35696>>, <<51052, 20899>>,
      <<53650, 59417>>, <<54937, 1572>>, <<62478, 13701>>, <<4202, 41072>>,
      <<6564, 49430>>, <<7735, 27656>>, <<10056, 30540>>, <<13488, 48309>>,
      <<14620, 3251>>, <<20184, 43594>>, <<23452, 51791>>, <<26670, 28659>>,
      <<29839, 33518>>, <<30885, 25455>>, <<33992, 30740>>, <<36039, 520>>,
      <<37054, 65530>>, <<42064, 27883>>, <<48889, 41975>>, <<50801, 30962>> >>

sha256Init ==
    <<
      <<27145, 58983>>, <<47975, 44677>>, <<15470, 62322>>, <<42319, 62778>>,
      <<20750, 21119>>, <<39685, 26764>>, <<8067, 55723>>, <<23520, 52505>> >>

\* the message followed by 0x80, zero bytes and its bit length in 8 bytes
sha256Pad(msg) ==
    LET zeros == (119 - (Len(msg) % 64)) % 64
        bits == 8 * Len(msg)
    IN  msg \o <<128>> \o [i \in 1..zeros |-> 0]
            \o <<0, 0, 0, 0, 0, 0, bits \div 256, bits % 256>>

RECURSIVE sha256Schedule(_)
sha256Schedule(w) ==
    IF Len(w) = 64 THEN w
    ELSE LET t == Len(w) + 1
         IN  sha256Schedule(Append(w,
                 WordAdd(WordAdd(SmallSigma1(w[t - 2]), w[t - 7]),
                         WordAdd(SmallSigma0(w[t - 15]), w[t - 16]))))

RECURSIVE sha256Rounds(_, _, _)
sha256Rounds(s, w, t) ==
    IF t > 64 \/ Len(s) # 8 THEN s
    ELSE LET t1 == WordAdd(WordAdd(WordAdd(s[8], BigSigma1(s[5])),
                                   WordAdd(ChWord(s[5], s[6], s[7]), sha256K[t])),
                           w[t])
             t2 == WordAdd(BigSigma0(s[1]), MajWord(s[1], s[2], s[3]))
         IN  sha256Rounds(<<WordAdd(t1, t2), s[1], s[2], s[3],
                            WordAdd(s[4], t1), s[5], s[6], s[7]>>, w, t + 1)

sha256Block(h, block) ==
    LET w == sha256Schedule([i \in 1..16 |->
                 <<block[4 * i - 3] * 256 + block[4 * i - 2],
                   block[4 * i - 1] * 256 + block[4 * i]>>])
        s == sha256Rounds(h, w, 1)
    IN  [i \in 1..8 |-> WordAdd(h[i], s[i])]

RECURSIVE sha256Blocks(_, _, _)
sha256Blocks(h, padded, offset) ==
    IF offset >= Len(padded) THEN h
    ELSE sha256Blocks(sha256Block(h, SubSeq(padded, offset + 1, offset + 64)),
                      padded, offset + 64)

\* the 32 digest bytes
sha256Digest(msg) ==
    LET h == sha256Blocks(sha256Init, sha256Pad(msg), 0)
    IN  [i \in 1..32 |->
            LET word == h[((i - 1) \div 4) + 1]
                half == word[(((i - 1) % 4) \div 2) + 1]
            IN  IF i % 2 = 1 THEN half \div 256 ELSE half % 256]

\* the inputs of the model after any of the writes a caller may make
Written(inputs) ==
    UNION { { [i \in 1..Len(v) |-> IF i \in DOMAIN w THEN w[i] ELSE v[i]] :
                w \in UNION { [p -> WriteBytes] : p \in SUBSET WritePositions } } :
            v \in inputs }

\* the lengths a Key built by New can be configured with
KeyLens ==
    {verifierMinLen} \cup {n \in LenInputs : validateVerifierLen(n) = NoErr}

\* every message the model hashes: the verifiers a Key can hold, supplied or
\* generated from a reader fresh or drawn from once, and the candidates
\* presented to it
KnownVerifiers ==
    {<<>>} \cup VerifierInputs \cup CandidateInputs \cup TestVerifiers
    \cup Written({v \in VerifierInputs : validateCodeVerifier(v) = NoErr})
    \cup { generateCodeVerifier(n, Consume(reader, drawn)) :
              n \in KeyLens, drawn \in {0} \cup KeyLens, reader \in RandStreams }

\* the digests of those messages; TLC computes this table once
sha256Known == [msg \in KnownVerifiers |-> sha256Digest(msg)]

\* s256.Write(msg); s256.Sum(nil)
sha256Sum(msg) == sha256Known[msg]

\* base64.RawURLEncoding: the URL-safe alphabet, no padding
encodeURL == alpha \o digit \o <<45, 95>>

\* the encoding with the standard alphabet ("+" and "/") in place of the
\* URL-safe one
RawURLEncodeToString_Std(src) ==
    LET n == Len(src)
        outLen == (n * 8 + 5) \div 6
        at(i) == IF i <= n THEN src[i] ELSE 0
        encodeStd == alpha \o digit \o <<43, 47>>
    IN  [j \in 1..outLen |->
            LET g == (j - 1) \div 4
                val == at(3 * g + 1) * 65536 + at(3 * g + 2) * 256 + at(3 * g + 3)
                k == (j - 1) % 4
            IN  encodeStd[((val \div (64 ^ (3 - k))) % 64) + 1]]

RawURLEncodeToString(src) ==
    LET n == Len(src)
        outLen == (n * 8 + 5) \div 6
        at(i) == IF i <= n THEN src[i] ELSE 0
    IN  [j \in 1..outLen |->
            LET g == (j - 1) \div 4
                val == at(3 * g + 1) * 65536 + at(3 * g + 2) * 256 + at(3 * g + 3)
                k == (j - 1) % 4
            IN  encodeURL[((val \div (64 ^ (3 - k))) % 64) + 1]]

----------------------------------------------------------------------------
(* Transform and the package-level entry points.                           *)

\* generateCodeChallenge refusing a method that is neither plain nor S256
generateCodeChallenge_MethodChecked(method, codeVerifier) ==
    CASE method = Plain -> codeVerifier
      [] method = S256 -> RawURLEncodeToString(sha256Sum(codeVerifier))
      [] OTHER -> <<>>

generateCodeChallenge(method, codeVerifier) ==
    IF method = Plain
    THEN codeVerifier
    ELSE RawURLEncodeToString(sha256Sum(codeVerifier))

\* GenerateCodeVerifier validating n and then generating the minimum length
GenerateCodeVerifier_MinLen(n, reader) ==
    IF validateVerifierLen(n) # NoErr
    THEN [out |-> <<>>, err |-> validateVerifierLen(n)]
    ELSE [out |-> generateCodeVerifier(verifierMinLen, reader), err |-> NoErr]

GenerateCodeVerifier(n, reader) ==
    IF validateVerifierLen(n) # NoErr
    THEN [out |-> <<>>, err |-> validateVerifierLen(n)]
    ELSE [out |-> generateCodeVerifier(n, reader), err |-> NoErr]

GenerateCodeChallenge(method, codeVerifier) ==
    LET err == validateCodeVerifier(codeVerifier)
    IN  IF err # NoErr
        THEN [out |-> <<>>, err |-> err]
        ELSE [out |-> generateCodeChallenge(method, codeVerifier), err |-> NoErr]

\* VerifyCodeVerifier validating the candidate under plain as well
VerifyCodeVerifier_PlainValidated(method, codeVerifier, codeChallenge) ==
    CASE method = Plain ->
            /\ validateCodeVerifier(codeVerifier) = NoErr
            /\ codeVerifier = codeChallenge
      [] method = S256 ->
            LET r == GenerateCodeChallenge(method, codeVerifier)
            IN  IF r.err # NoErr
                THEN FALSE
                ELSE r.out = codeChallenge
      [] OTHER -> FALSE

\* VerifyCodeVerifier comparing candidate and challenge directly under S256
VerifyCodeVerifier_S256Direct(method, codeVerifier, codeChallenge) ==
    CASE method = Plain -> codeVerifier = codeChallenge
      [] method = S256 -> codeVerifier = codeChallenge
      [] OTHER -> FALSE

\* VerifyCodeVerifier treating every method but plain as S256
VerifyCodeVerifier_DefaultS256(method, codeVerifier, codeChallenge) ==
    CASE method = Plain -> codeVerifier = codeChallenge
      [] OTHER ->
            LET r == GenerateCodeChallenge(S256, codeVerifier)
            IN  IF r.err # NoErr
                THEN FALSE
                ELSE r.out = codeChallenge

\* VerifyCodeVerifier transforming the candidate without validating it
VerifyCodeVerifier_NoValidation(method, codeVerifier, codeChallenge) ==
    CASE method = Plain -> codeVerifier = codeChallenge
      [] method = S256 ->
            generateCodeChallenge(method, codeVerifier) = codeChallenge
      [] OTHER -> FALSE

VerifyCodeVerifier(method, codeVerifier, codeChallenge) ==
    CASE method = Plain -> codeVerifier = codeChallenge
      [] method = S256 ->
            LET r == GenerateCodeChallenge(method, codeVerifier)
            IN  IF r.err # NoErr
                THEN FALSE
                ELSE r.out = codeChallenge
      [] OTHER -> FALSE

----------------------------------------------------------------------------
(* The Key and its setters.  Each returns the Key after the call and the   *)
(* error the call returned.                                                *)

Result(k, e) == [key |-> k, err |-> e]

\* SetChallengeMethod without the downgrade guard
SetChallengeMethod_NoGuard(k, method) ==
    IF method \in {Plain, S256}
    THEN Result([k EXCEPT !.challengeMethod = method], NoErr)
    ELSE Result(k, ErrMethodNotSupported)

\* SetChallengeMethod guarding the wrong direction
SetChallengeMethod_GuardSwapped(k, method) ==
    IF method \in {Plain, S256}
    THEN IF k.challengeMethod = Plain /\ method = S256
         THEN Result(k, ErrMethodDowngrade)
         ELSE Result([k EXCEPT !.challengeMethod = method], NoErr)
    ELSE Result(k, ErrMethodNotSupported)

SetChallengeMethod(k, method) ==
    IF method \in {Plain, S256}
    THEN IF k.challengeMethod = S256 /\ method = Plain
         THEN Result(k, ErrMethodDowngrade)
         ELSE Result([k EXCEPT !.challengeMethod = method], NoErr)
    ELSE Result(k, ErrMethodNotSupported)

ChallengeMethod(k) == k.challengeMethod

\* setCodeVerifierLength without the check for a verifier already present
setCodeVerifierLength_NoGuard(k, n) ==
    IF validateVerifierLen(n) # NoErr
    THEN Result(k, validateVerifierLen(n))
    ELSE Result([k EXCEPT !.codeVerifierLen = n], NoErr)

\* setCodeVerifierLength validating n before it looks for a verifier
setCodeVerifierLength_ValidateFirst(k, n) ==
    IF validateVerifierLen(n) # NoErr
    THEN Result(k, validateVerifierLen(n))
    ELSE IF Len(k.codeVerifier) > 0
         THEN Result(k, NoErr)
         ELSE Result([k EXCEPT !.codeVerifierLen = n], NoErr)

\* setCodeVerifierLength storing n without validating it
setCodeVerifierLength_NoValidate(k, n) ==
    IF Len(k.codeVerifier) > 0
    THEN Result(k, NoErr)
    ELSE Result([k EXCEPT !.codeVerifierLen = n], NoErr)

setCodeVerifierLength(k, n) ==
    IF Len(k.codeVerifier) > 0
    THEN Result(k, NoErr)
    ELSE IF validateVerifierLen(n) # NoErr
         THEN Result(k, validateVerifierLen(n))
         ELSE Result([k EXCEPT !.codeVerifierLen = n], NoErr)

\* setCodeVerifier assigning before it validates
setCodeVerifier_AssignFirst(k, verifier) ==
    Result([k EXCEPT !.codeVerifier = verifier,
                     !.codeVerifierLen = Len(verifier)],
           validateCodeVerifier(verifier))

\* setCodeVerifier storing the verifier without overwriting codeVerifierLen
setCodeVerifier_KeepLen(k, verifier) ==
    LET err == validateCodeVerifier(verifier)
    IN  IF err # NoErr
        THEN Result(k, err)
        ELSE Result([k EXCEPT !.codeVerifier = verifier], NoErr)

setCodeVerifier(k, verifier) ==
    LET err == validateCodeVerifier(verifier)
    IN  IF err # NoErr
        THEN Result(k, err)
        ELSE Result([k EXCEPT !.codeVerifier = verifier,
                          !.codeVerifierLen = Len(verifier)], NoErr)

\* getCodeVerifier generating on every call, a verifier present or not
getCodeVerifier_Reroll(k, reader) ==
    [k EXCEPT !.codeVerifier = generateCodeVerifier(k.codeVerifierLen, reader)]

\* how many times getCodeVerifier draws: codeVerifierLen times when it
\* generates, never when the Key holds a verifier
Drawn(k) == IF Len(k.codeVerifier) = 0 THEN k.codeVerifierLen ELSE 0

\* the Key after getCodeVerifier, read from `reader` when it generates
getCodeVerifier(k, reader) ==
    IF Len(k.codeVerifier) = 0
    THEN [k EXCEPT !.codeVerifier = generateCodeVerifier(k.codeVerifierLen, reader)]
    ELSE k

\* CodeVerifier: the Key after the call and the string returned
CodeVerifier(k, reader) ==
    LET k2 == getCodeVerifier(k, reader)
    IN  [key |-> k2, out |-> k2.codeVerifier]

\* CodeChallenge transforming with S256 whatever the Key's method is
CodeChallenge_FixedS256(k, reader) ==
    LET k2 == getCodeVerifier(k, reader)
    IN  [key |-> k2,
         out |-> generateCodeChallenge(S256, k2.codeVerifier)]

CodeChallenge(k, reader) ==
    LET k2 == getCodeVerifier(k, reader)
    IN  [key |-> k2,
         out |-> generateCodeChallenge(ChallengeMethod(k), k2.codeVerifier)]

\* Key.VerifyCodeVerifier
KeyVerifyCodeVerifier(k, codeVerifier, reader) ==
    LET c == CodeChallenge(k, reader)
    IN  [key |-> c.key,
         ok |-> VerifyCodeVerifier(ChallengeMethod(k), codeVerifier, c.out)]

----------------------------------------------------------------------------
(* Options.  An Option is a closure over its argument; the model keeps the *)
(* constructor's name and argument and applies it with Apply.              *)

Option(name, method, n, verifier) ==
    [name |-> name, method |-> method, n |-> n, verifier |-> verifier]

\* WithChallengeMethod with the downgrade guard of SetChallengeMethod
WithChallengeMethod_Guarded(k, method) ==
    IF method \in {Plain, S256}
    THEN IF k.challengeMethod = S256 /\ method = Plain
         THEN Result(k, ErrMethodDowngrade)
         ELSE Result([k EXCEPT !.challengeMethod = method], NoErr)
    ELSE Result(k, ErrMethodNotSupported)

\* WithChallengeMethod assigning before it looks at the method
WithChallengeMethod_AssignFirst(k, method) ==
    IF method \in {Plain, S256}
    THEN Result([k EXCEPT !.challengeMethod = method], NoErr)
    ELSE Result([k EXCEPT !.challengeMethod = method], ErrMethodNotSupported)

WithChallengeMethod(k, method) ==
    IF method \in {Plain, S256}
    THEN Result([k EXCEPT !.challengeMethod = method], NoErr)
    ELSE Result(k, ErrMethodNotSupported)

WithCodeVerifier(k, codeVerifier) == setCodeVerifier(k, codeVerifier)

WithCodeVerifierLength(k, n) == setCodeVerifierLength(k, n)

\* opt(key)
Apply(opt, k) ==
    CASE opt.name = "WithChallengeMethod" -> WithChallengeMethod(k, opt.method)
      [] opt.name = "WithCodeVerifier" -> WithCodeVerifier(k, opt.verifier)
      [] opt.name = "WithCodeVerifierLength" -> WithCodeVerifierLength(k, opt.n)

----------------------------------------------------------------------------
(* New.                                                                    *)

RECURSIVE NewLoop_NoReturn(_, _, _)
\* the loop of New without the return on error: every option is applied and
\* err is whatever the last one returned
NewLoop_NoReturn(k, opts, i) ==
    IF i > Len(opts)
    THEN Result(k, NoErr)
    ELSE LET r == Apply(opts[i], k)
         IN  IF i = Len(opts)
             THEN r
             ELSE NewLoop_NoReturn(r.key, opts, i + 1)

RECURSIVE NewLoop(_, _, _)
\* the range loop of New from position i on
NewLoop(k, opts, i) ==
    IF i > Len(opts)
    THEN Result(k, NoErr)
    ELSE LET r == Apply(opts[i], k)
         IN  IF r.err # NoErr
             THEN r
             ELSE NewLoop(r.key, opts, i + 1)

\* New starting from the zero value of Key
DefaultKey_Zero ==
    [challengeMethod |-> "", codeVerifierLen |-> 0, codeVerifier |-> <<>>]

\* New starting from the maximum verifier length
DefaultKey_MaxLen ==
    [challengeMethod |-> S256,
     codeVerifierLen |-> verifierMaxLen,
     codeVerifier |-> <<>>]

DefaultKey ==
    [challengeMethod |-> S256,
     codeVerifierLen |-> verifierMinLen,
     codeVerifier |-> <<>>]

New(opts) == NewLoop(DefaultKey, opts, 1)

\* the zero value of the Key struct
ZeroKey == [challengeMethod |-> "", codeVerifierLen |-> 0, codeVerifier |-> <<>>]

----------------------------------------------------------------------------
(* Option lists for New.                                                   *)

Options ==
    {Option("WithChallengeMethod", m, 0, <<>>) : m \in MethodInputs}
    \cup {Option("WithCodeVerifierLength", "", n, <<>>) : n \in LenInputs}
    \cup {Option("WithCodeVerifier", "", 0, v) : v \in VerifierInputs}

RECURSIVE OptionLists(_)
OptionLists(n) ==
    IF n = 0
    THEN {<<>>}
    ELSE OptionLists(n - 1)
         \cup {Append(l, o) : l \in {x \in OptionLists(n - 1) : Len(x) = n - 1},
                              o \in Options}

----------------------------------------------------------------------------
(* The state machine: a caller builds a Key with New and then calls its    *)
(* methods, applies further Options to it, or writes into the slice it     *)
(* gave to WithCodeVerifier.                                               *)

Call(name, method, n, verifier, opts) ==
    [name |-> name, method |-> method, n |-> n, verifier |-> verifier,
     opts |-> opts, challenge |-> <<>>]

Ret(e, method, str, ok) ==
    [err |-> e, method |-> method, str |-> str, ok |-> ok]

\* New(opts...)
InitNew(opts) ==
    LET r == New(opts)
    IN  /\ key = r.key
        /\ prev = DefaultKey
        /\ origin = "New"
        /\ shared = (Len(r.key.codeVerifier) > 0)
        /\ op = Call("New", "", 0, <<>>, opts)
        /\ ret = Ret(r.err, "", <<>>, FALSE)
        /\ rand \in RandStreams

\* var k Key, or &Key{}: the zero value, as the package's tests build it
InitZero ==
    /\ key = ZeroKey
    /\ prev = ZeroKey
    /\ origin = "Key{}"
    /\ shared = FALSE
    /\ op = Call("Key{}", "", 0, <<>>, <<>>)
    /\ ret = Ret(NoErr, "", <<>>, FALSE)
    /\ rand \in RandStreams

Init ==
    \/ \E opts \in OptionLists(MaxOpts) : InitNew(opts)
    \/ InitZero

CallSetChallengeMethod(method) ==
    LET r == SetChallengeMethod(key, method)
    IN  /\ key' = r.key
        /\ prev' = key
        /\ op' = Call("SetChallengeMethod", method, 0, <<>>, <<>>)
        /\ ret' = Ret(r.err, "", <<>>, FALSE)
        /\ UNCHANGED <<shared, origin, rand>>

CallChallengeMethod ==
    /\ prev' = key
    /\ op' = Call("ChallengeMethod", "", 0, <<>>, <<>>)
    /\ ret' = Ret(NoErr, ChallengeMethod(key), <<>>, FALSE)
    /\ UNCHANGED <<key, shared, origin, rand>>

\* an Option applied to the Key after construction: opt(key)
CallOption(opt) ==
    LET r == Apply(opt, key)
    IN  /\ key' = r.key
        /\ prev' = key
        /\ shared' = IF opt.name = "WithCodeVerifier" /\ r.err = NoErr
                     THEN TRUE
                     ELSE shared
        /\ op' = Call(opt.name, opt.method, opt.n, opt.verifier, <<>>)
        /\ ret' = Ret(r.err, "", <<>>, FALSE)
        /\ UNCHANGED <<origin, rand>>

\* The three calls below draw when the Key holds no verifier; a behaviour is
\* followed for as long as the reader holds the values of its draws.
CallCodeVerifier ==
    LET r == CodeVerifier(key, rand)
    IN  /\ Drawn(key) <= Len(rand)
        /\ key' = r.key
        /\ prev' = key
        /\ op' = Call("CodeVerifier", "", 0, <<>>, <<>>)
        /\ ret' = Ret(NoErr, "", r.out, FALSE)
        /\ rand' = Consume(rand, Drawn(key))
        /\ UNCHANGED <<shared, origin>>

CallCodeChallenge ==
    LET r == CodeChallenge(key, rand)
    IN  /\ Drawn(key) <= Len(rand)
        /\ key' = r.key
        /\ prev' = key
        /\ op' = Call("CodeChallenge", "", 0, <<>>, <<>>)
        /\ ret' = Ret(NoErr, "", r.out, FALSE)
        /\ rand' = Consume(rand, Drawn(key))
        /\ UNCHANGED <<shared, origin>>

\* Key.VerifyCodeVerifier(codeVerifier)
CallVerifyCodeVerifier(codeVerifier) ==
    LET r == KeyVerifyCodeVerifier(key, codeVerifier, rand)
    IN  /\ Drawn(key) <= Len(rand)
        /\ key' = r.key
        /\ prev' = key
        /\ op' = Call("VerifyCodeVerifier", "", 0, codeVerifier, <<>>)
        /\ ret' = Ret(NoErr, "", <<>>, r.ok)
        /\ rand' = Consume(rand, Drawn(key))
        /\ UNCHANGED <<shared, origin>>

\* the caller overwrites one byte of the slice it passed to WithCodeVerifier
CallerWrite(i, b) ==
    /\ shared
    /\ i <= Len(key.codeVerifier)
    /\ key' = [key EXCEPT !.codeVerifier[i] = b]
    /\ prev' = key
    /\ op' = Call("CallerWrite", "", i, <<b>>, <<>>)
    /\ ret' = Ret(NoErr, "", <<>>, FALSE)
    /\ UNCHANGED <<shared, origin, rand>>

Next ==
    \/ \E method \in MethodInputs : CallSetChallengeMethod(method)
    \/ CallChallengeMethod
    \/ \E opt \in Options : CallOption(opt)
    \/ CallCodeVerifier
    \/ CallCodeChallenge
    \/ /\ Drawn(key) <= Len(rand)
       /\ \E c \in CandidateInputs \cup {getCodeVerifier(key, rand).codeVerifier} :
              CallVerifyCodeVerifier(c)
    \/ \E i \in WritePositions, b \in WriteBytes : CallerWrite(i, b)

Spec == Init /\ [][Next]_vars

\* New(opts...) returned no error
BuiltInit ==
    \E opts \in OptionLists(MaxOpts) : InitNew(opts) /\ ret.err = NoErr

\* the Keys that New built without an error, and the calls made on them
BuiltSpec == BuiltInit /\ [][Next]_vars

----------------------------------------------------------------------------
(* The package-level functions, called on their own: they take their       *)
(* arguments, touch no Key and return a string and an error.               *)

\* how far below 0 and above verifierMaxLen the requested lengths reach
LenSlack == 3

\* the lengths asked of GenerateCodeVerifier
PkgLenInputs == (0 - LenSlack)..(verifierMaxLen + LenSlack)

\* the verifiers handed to GenerateCodeChallenge
PkgVerifierInputs == KnownVerifiers \cup {Rep(33, 129)}

\* no call made yet, no Key involved
PkgStart ==
    /\ key = ZeroKey
    /\ prev = ZeroKey
    /\ origin = "package"
    /\ shared = FALSE
    /\ op = Call("none", "", 0, <<>>, <<>>)
    /\ ret = Ret(NoErr, "", <<>>, FALSE)

PkgInit == PkgStart /\ rand \in RandStreams

GenInit == PkgStart /\ rand \in Readers(GenDraws)

\* how many times GenerateCodeVerifier(n) draws: n times, and never when it
\* refuses n
PkgDrawn(n) == IF validateVerifierLen(n) = NoErr THEN n ELSE 0

CallGenerateCodeVerifier(n) ==
    LET r == GenerateCodeVerifier(n, rand)
    IN  /\ PkgDrawn(n) <= Len(rand)
        /\ op' = Call("GenerateCodeVerifier", "", n, <<>>, <<>>)
        /\ ret' = Ret(r.err, "", r.out, FALSE)
        /\ rand' = Consume(rand, PkgDrawn(n))
        /\ UNCHANGED <<key, shared, prev, origin>>

CallGenerateCodeChallenge(method, codeVerifier) ==
    LET r == GenerateCodeChallenge(method, codeVerifier)
    IN  /\ op' = Call("GenerateCodeChallenge", method, 0, codeVerifier, <<>>)
        /\ ret' = Ret(r.err, "", r.out, FALSE)
        /\ UNCHANGED <<key, shared, prev, origin, rand>>

\* the candidates handed to VerifyCodeVerifier
PkgCandidates ==
    TestVerifiers
    \cup {<<>>, <<121, 111, 108, 111>>, Rep(97, 43), Rep(97, 129)}

\* the challenges handed to VerifyCodeVerifier: the candidates themselves,
\* their S256 transforms, and the expected challenges of the tests
PkgChallenges ==
    PkgCandidates
    \cup {generateCodeChallenge(S256, v) : v \in PkgCandidates}
    \cup {TestChallenge43, TestChallenge128}

\* VerifyCodeVerifier(method, codeVerifier, codeChallenge), the package-level
\* function
CallPkgVerifyCodeVerifier(method, codeVerifier, codeChallenge) ==
    /\ op' = [Call("VerifyCodeVerifier", method, 0, codeVerifier, <<>>)
                  EXCEPT !.challenge = codeChallenge]
    /\ ret' = Ret(NoErr, "", <<>>,
                  VerifyCodeVerifier(method, codeVerifier, codeChallenge))
    /\ UNCHANGED <<key, shared, prev, origin, rand>>

\* GenerateCodeVerifier called again and again, each call drawing on from
\* where the call before it stopped, for as long as the reader is followed
GenNext == \E n \in PkgLenInputs : CallGenerateCodeVerifier(n)

GenSpec == GenInit /\ [][GenNext]_vars

\* the two functions that never read the random source
PkgNext ==
    \/ \E method \in MethodInputs, v \in PkgVerifierInputs :
          CallGenerateCodeChallenge(method, v)
    \/ \E method \in MethodInputs, v \in PkgCandidates, c \in PkgChallenges :
          CallPkgVerifyCodeVerifier(method, v, c)

\* they leave the reader as it is: one reader is enough to start with
TransformInit == PkgStart /\ rand = Outcome(0, MaxDraws)

PkgSpec == TransformInit /\ [][PkgNext]_vars

----------------------------------------------------------------------------
(* The character validators, called on their own as the package's tests    *)
(* call them.                                                              *)

\* every value of a byte
ByteValues == 0..255

\* the byte slices handed to validateCodeVerifierCharacters: no length is
\* required of them
CharInputs ==
    { <<>>,
      unreserved,                              \* all 66 symbols
      <<126>>,                                 \* "~"
      <<96>>,                                  \* "`"
      <<33>>,                                  \* "!"
      <<195, 169>>,                            \* a two-byte UTF-8 rune
      Rep(97, 5) \o <<240, 159, 146, 169>>,    \* letters, a four-byte rune
      <<227, 129, 130>> \o Rep(97, 5),         \* a three-byte rune, letters
      Rep(97, 43) \o <<33>>,
      Rep(97, 129) }
    \cup { [unreserved EXCEPT ![i] = b] : i \in {1, 33, 66}, b \in {32, 64, 127} }

CallValidVerifierChar(c) ==
    /\ op' = Call("validVerifierChar", "", c, <<>>, <<>>)
    /\ ret' = Ret(NoErr, "", <<>>, validVerifierChar(c))
    /\ UNCHANGED <<key, shared, prev, origin, rand>>

CallValidateCodeVerifierCharacters(chars) ==
    /\ op' = Call("validateCodeVerifierCharacters", "", 0, chars, <<>>)
    /\ ret' = Ret(validateCodeVerifierCharacters(chars), "", <<>>, FALSE)
    /\ UNCHANGED <<key, shared, prev, origin, rand>>

CharNext ==
    \/ \E c \in ByteValues : CallValidVerifierChar(c)
    \/ \E chars \in CharInputs : CallValidateCodeVerifierCharacters(chars)

CharSpec == PkgInit /\ [][CharNext]_vars

----------------------------------------------------------------------------
(* Properties of the method setters.                                       *)

LegalMethods == {"plain", "S256"}

CalledSetPlain == op.name = "SetChallengeMethod" /\ op.method = "plain"

\* the last call applied the option WithChallengeMethod(plain), on its own
\* or as an option of New that New reached: no option before it failed
AppliedPlainOption ==
    \/ op.name = "WithChallengeMethod" /\ op.method = "plain"
    \/ /\ op.name = "New"
       /\ \E i \in 1..Len(op.opts) :
             /\ op.opts[i].name = "WithChallengeMethod"
             /\ op.opts[i].method = "plain"
             /\ New(SubSeq(op.opts, 1, i - 1)).err = "nil"

\* C1: SetChallengeMethod(plain) on a Key at S256 returns ErrMethodDowngrade
\* and leaves challengeMethod, codeVerifierLen and codeVerifier as they were.
C1_DowngradeRejected ==
    (CalledSetPlain /\ prev.challengeMethod = "S256")
        => /\ ret.err = "ErrMethodDowngrade"
           /\ key.challengeMethod = prev.challengeMethod
           /\ key.codeVerifierLen = prev.codeVerifierLen
           /\ key.codeVerifier = prev.codeVerifier

\* a Key built by New, holding a verifier, has just refused the downgrade
C1_Witness ==
    /\ CalledSetPlain
    /\ origin = "New"
    /\ prev.challengeMethod = "S256"
    /\ Len(prev.codeVerifier) > 0
    /\ ret.err = "ErrMethodDowngrade"

\* C2 as stated: once challengeMethod is S256, no call of any kind, no Option
\* applied at or after construction included, leaves ChallengeMethod() at
\* plain.
C2_Original ==
    prev.challengeMethod = "S256" => ChallengeMethod(key) # "plain"

\* C2 amended: once challengeMethod is S256 it stays S256 through every call
\* other than the option WithChallengeMethod(plain): SetChallengeMethod, the
\* other two options, the accessors and the verify call never bring back
\* plain.
C2_NoDowngradeExceptPlainOption ==
    (prev.challengeMethod = "S256" /\ ~AppliedPlainOption)
        => ChallengeMethod(key) = "S256"

\* a zero-value Key that was raised to S256 has refused to go back to plain
C2_Witness ==
    /\ CalledSetPlain
    /\ origin = "Key{}"
    /\ prev.challengeMethod = "S256"
    /\ ChallengeMethod(key) = "S256"

\* C3 as stated: for every Key state and every method m the option
\* WithChallengeMethod(m) and Key.SetChallengeMethod(m) return the same error
\* and leave the same Key.
C3_Original ==
    \A m \in MethodInputs :
        WithChallengeMethod(key, m) = SetChallengeMethod(key, m)

\* C3 amended: the two agree for every Key state and method, except on a Key
\* at S256 with m = plain, where SetChallengeMethod returns ErrMethodDowngrade
\* and changes nothing while the option returns no error and sets plain.
C3_SameExceptDowngrade ==
    \A m \in MethodInputs :
        IF key.challengeMethod = "S256" /\ m = "plain"
        THEN /\ SetChallengeMethod(key, m).err = "ErrMethodDowngrade"
             /\ SetChallengeMethod(key, m).key = key
             /\ WithChallengeMethod(key, m).err = "nil"
             /\ WithChallengeMethod(key, m).key
                    = [key EXCEPT !.challengeMethod = "plain"]
        ELSE WithChallengeMethod(key, m) = SetChallengeMethod(key, m)

\* the option has just taken a Key from S256 to plain
C3_Witness ==
    /\ op.name = "WithChallengeMethod"
    /\ op.method = "plain"
    /\ prev.challengeMethod = "S256"
    /\ key.challengeMethod = "plain"
    /\ ret.err = "nil"

\* C4 as stated: a Key fresh from New, no method chosen by the caller, accepts
\* SetChallengeMethod(plain), and a Key at plain accepts SetChallengeMethod(S256).
C4_Original ==
    /\ (CalledSetPlain /\ origin = "New" /\ prev = New(<<>>).key)
           => (ret.err = "nil" /\ key.challengeMethod = "plain")
    /\ (op.name = "SetChallengeMethod" /\ op.method = "S256"
            /\ prev.challengeMethod = "plain")
           => (ret.err = "nil" /\ key.challengeMethod = "S256")

\* C4 amended: a Key whose method is unset (the zero value, as the tests build
\* it) accepts SetChallengeMethod(plain); a Key fresh from New is already at
\* S256 and answers SetChallengeMethod(plain) with ErrMethodDowngrade; the
\* upgrade from plain to S256 is always accepted.
C4_FreshThenUpgrade ==
    /\ (CalledSetPlain /\ prev.challengeMethod = "")
           => (ret.err = "nil" /\ key = [prev EXCEPT !.challengeMethod = "plain"])
    /\ (CalledSetPlain /\ origin = "New" /\ prev = New(<<>>).key)
           => (ret.err = "ErrMethodDowngrade" /\ key = prev)
    /\ (op.name = "SetChallengeMethod" /\ op.method = "S256"
            /\ prev.challengeMethod = "plain")
           => (ret.err = "nil" /\ key = [prev EXCEPT !.challengeMethod = "S256"])

\* a zero-value Key, set to plain, has just been upgraded to S256
C4_Witness ==
    /\ op.name = "SetChallengeMethod"
    /\ op.method = "S256"
    /\ origin = "Key{}"
    /\ prev.challengeMethod = "plain"
    /\ key.challengeMethod = "S256"
    /\ ret.err = "nil"

\* C5: a method outside {plain, S256}, the empty string included, makes both
\* SetChallengeMethod and the option WithChallengeMethod (applied on its own
\* or first in New) return ErrMethodNotSupported and leave the Key unchanged.
C5_IllegalMethodRejected ==
    /\ (op.name \in {"SetChallengeMethod", "WithChallengeMethod"}
            /\ op.method \notin LegalMethods)
           => (ret.err = "ErrMethodNotSupported" /\ key = prev)
    /\ (op.name = "New" /\ Len(op.opts) > 0
            /\ op.opts[1].name = "WithChallengeMethod"
            /\ op.opts[1].method \notin LegalMethods)
           => (ret.err = "ErrMethodNotSupported" /\ key = prev)

\* the option with the empty method was refused by a Key holding a verifier
C5_Witness ==
    /\ op.name = "WithChallengeMethod"
    /\ op.method = ""
    /\ Len(prev.codeVerifier) > 0
    /\ prev.challengeMethod = "plain"
    /\ ret.err = "ErrMethodNotSupported"

\* C6: a Key returned by New, with or without an error, has a challengeMethod
\* of plain or S256, and keeps one through every later call.
C6_MethodLegal ==
    origin = "New" => key.challengeMethod \in LegalMethods

\* an illegal method was offered to a Key built by New that is at plain, and
\* the Key stayed at plain
C6_Witness ==
    /\ origin = "New"
    /\ op.name \in {"SetChallengeMethod", "WithChallengeMethod"}
    /\ op.method = "not-a-method"
    /\ key.challengeMethod = "plain"

----------------------------------------------------------------------------
(* Properties of New and of the verifier options.                          *)

\* C7: New with no options returns no error and a Key with method S256,
\* verifier length 43 and no verifier.
C7_Defaults ==
    (op.name = "New" /\ op.opts = <<>>)
        => /\ ret.err = "nil"
           /\ key = [challengeMethod |-> "S256", codeVerifierLen |-> 43,
                     codeVerifier |-> <<>>]

C7_Witness ==
    /\ op.name = "New"
    /\ Len(op.opts) = 0
    /\ ret.err = "nil"
    /\ ~shared

RECURSIVE KeyAfter(_, _)
\* the Key that carries the mutations of the first n options, in order
KeyAfter(opts, n) ==
    IF n = 0
    THEN [challengeMethod |-> "S256", codeVerifierLen |-> 43,
          codeVerifier |-> <<>>]
    ELSE Apply(opts[n], KeyAfter(opts, n - 1)).key

\* the positions whose option fails on the Key built by the options before it
Failing(opts) ==
    {i \in 1..Len(opts) : Apply(opts[i], KeyAfter(opts, i - 1)).err # "nil"}

\* C8: New applies its options in order and stops at the first that fails: it
\* returns that option's error and the Key as the options before it left it.
\* With no failing option it returns no error and the Key after all of them.
C8_StopsAtFirstError ==
    op.name = "New" =>
        IF Failing(op.opts) = {}
        THEN ret.err = "nil" /\ key = KeyAfter(op.opts, Len(op.opts))
        ELSE LET first == CHOOSE i \in Failing(op.opts) :
                              \A j \in Failing(op.opts) : i <= j
             IN  /\ ret.err = Apply(op.opts[first],
                                    KeyAfter(op.opts, first - 1)).err
                 /\ key = KeyAfter(op.opts, first - 1)

\* New failed on its second option after the first had changed the Key
C8_Witness ==
    /\ op.name = "New"
    /\ Len(op.opts) >= 2
    /\ Apply(op.opts[1], prev).err = "nil"
    /\ ret.err # "nil"
    /\ key # prev

UnreservedBytes == {unreserved[i] : i \in 1..Len(unreserved)}

\* the 66 unreserved symbols of RFC 3986: A-Z, a-z, 0-9, "-", ".", "_", "~"
Unreserved66 ==
    (65..90) \cup (97..122) \cup (48..57) \cup {45, 46, 95, 126}

BadLength(n) == n < 43 \/ n > 128

\* C9: a failing WithCodeVerifier (bad length, or a byte outside the
\* unreserved alphabet) and a failing WithCodeVerifierLength (n outside
\* [43,128]) return their error and leave all three fields as they were.
C9_FailedOptionNoMutation ==
    /\ (op.name = "WithCodeVerifier" /\ BadLength(Len(op.verifier)))
           => (ret.err = "ErrVerifierLength" /\ key = prev)
    /\ (op.name = "WithCodeVerifier" /\ ~BadLength(Len(op.verifier))
            /\ \E i \in 1..Len(op.verifier) : op.verifier[i] \notin UnreservedBytes)
           => (ret.err = "ErrVerifierCharacters" /\ key = prev)
    /\ (op.name = "WithCodeVerifierLength" /\ BadLength(op.n)
            /\ Len(prev.codeVerifier) = 0)
           => (ret.err = "ErrVerifierLength" /\ key = prev)
    /\ (op.name \in {"WithCodeVerifier", "WithCodeVerifierLength"}
            /\ ret.err # "nil")
           => key = prev

\* a Key holding a verifier has refused a verifier with a disallowed byte
C9_Witness ==
    /\ op.name = "WithCodeVerifier"
    /\ ret.err = "ErrVerifierCharacters"
    /\ Len(prev.codeVerifier) > 0
    /\ prev.codeVerifierLen # Len(op.verifier)

\* C10: a Key built by New that holds a verifier has codeVerifierLen equal to
\* the verifier's length, whatever options and calls came before.
C10_LenMatchesVerifier ==
    (origin = "New" /\ Len(key.codeVerifier) > 0)
        => key.codeVerifierLen = Len(key.codeVerifier)

\* WithCodeVerifier has just replaced a requested length of 100 by the
\* length of the verifier it was given
C10_Witness ==
    /\ origin = "New"
    /\ op.name = "WithCodeVerifier"
    /\ ret.err = "nil"
    /\ prev.codeVerifierLen = 100
    /\ Len(prev.codeVerifier) = 0
    /\ key.codeVerifierLen = Len(op.verifier)
    /\ key.codeVerifierLen # 100

----------------------------------------------------------------------------
(* Properties of the verifier length option and of the lazy accessors.     *)

\* a verifier as RFC 7636 allows it, stated without the package's validators
ValidVerifier(v) ==
    /\ ~BadLength(Len(v))
    /\ \A i \in 1..Len(v) : v[i] \in UnreservedBytes

\* C11: WithCodeVerifierLength(n) applied to a Key that already holds a
\* verifier returns no error for every n, in or out of [43,128], and leaves
\* codeVerifierLen and codeVerifier (the whole Key) as they were; so New with
\* a valid verifier option followed by a length option returns no error and
\* the verifier with its own length.
C11_LengthNoOpWithVerifier ==
    /\ (op.name = "WithCodeVerifierLength" /\ Len(prev.codeVerifier) > 0)
           => (ret.err = "nil" /\ key = prev)
    /\ (op.name = "New" /\ Len(op.opts) = 2
            /\ op.opts[1].name = "WithCodeVerifier"
            /\ ValidVerifier(op.opts[1].verifier)
            /\ op.opts[2].name = "WithCodeVerifierLength")
           => /\ ret.err = "nil"
              /\ key.codeVerifier = op.opts[1].verifier
              /\ key.codeVerifierLen = Len(op.opts[1].verifier)

\* a Key holding a verifier was offered the length 129 and stayed as it was
C11_Witness ==
    /\ op.name = "WithCodeVerifierLength"
    /\ op.n = 129
    /\ Len(prev.codeVerifier) > 0
    /\ ret.err = "nil"
    /\ key = prev

\* New was called with exactly a verifier option and a length option, the
\* verifier option at position i
VerifierAndLength(i) ==
    /\ op.name = "New"
    /\ Len(op.opts) = 2
    /\ op.opts[i].name = "WithCodeVerifier"
    /\ op.opts[3 - i].name = "WithCodeVerifierLength"

\* what New returned is what it returns for the verifier option at i alone
SameAsVerifierAlone(i) ==
    /\ ret.err = New(<<op.opts[i]>>).err
    /\ key = New(<<op.opts[i]>>).key

\* C12 as stated: with WithCodeVerifier supplied to New, a length option
\* changes nothing, for every n and on either side of the verifier option:
\* New returns the same error and the same Key as without it.
C12_Original ==
    \A i \in {1, 2} : VerifierAndLength(i) => SameAsVerifierAlone(i)

\* C12 amended: the length option is redundant when it follows the verifier
\* option (every n, every verifier), and when it precedes it with n in
\* [43,128] and a valid verifier.  Before the verifier option an n outside
\* [43,128] makes New return ErrVerifierLength with the default Key, and a
\* valid n stays in codeVerifierLen when the verifier option then fails.
C12_LengthRedundantAfter ==
    /\ VerifierAndLength(1) => SameAsVerifierAlone(1)
    /\ (VerifierAndLength(2) /\ ~BadLength(op.opts[1].n)
            /\ ValidVerifier(op.opts[2].verifier))
           => SameAsVerifierAlone(2)
    /\ (VerifierAndLength(2) /\ BadLength(op.opts[1].n))
           => /\ ret.err = "ErrVerifierLength"
              /\ key = [challengeMethod |-> "S256", codeVerifierLen |-> 43,
                        codeVerifier |-> <<>>]
    /\ (VerifierAndLength(2) /\ ~BadLength(op.opts[1].n)
            /\ ~ValidVerifier(op.opts[2].verifier))
           => /\ ret.err = New(<<op.opts[2]>>).err
              /\ key = [challengeMethod |-> "S256",
                        codeVerifierLen |-> op.opts[1].n,
                        codeVerifier |-> <<>>]

\* New(WithCodeVerifierLength(100), WithCodeVerifier(v)) with a valid v
\* returned the Key that New(WithCodeVerifier(v)) returns
C12_Witness ==
    /\ VerifierAndLength(2)
    /\ op.opts[1].n = 100
    /\ ret.err = "nil"
    /\ key.codeVerifier = op.opts[2].verifier
    /\ key.codeVerifierLen = Len(op.opts[2].verifier)
    /\ key.codeVerifierLen # 100

\* what the random source yields over a call on a Key that holds its
\* verifier: nothing is drawn
NoDraws == <<>>

\* the calls that go through getCodeVerifier
Accessors == {"CodeVerifier", "CodeChallenge", "VerifyCodeVerifier"}

\* C13: on a Key built by New that holds no verifier, a call of CodeVerifier,
\* CodeChallenge or Key.VerifyCodeVerifier stores a verifier of length
\* codeVerifierLen and changes nothing else; on a Key that holds a verifier,
\* generated or supplied, each of the three leaves the Key as it was and
\* CodeVerifier returns the stored bytes, whatever the random source would
\* draw (no reroll).
C13_LazyMemoizing ==
    /\ (origin = "New" /\ op.name \in Accessors /\ Len(prev.codeVerifier) = 0)
           => /\ Len(key.codeVerifier) = prev.codeVerifierLen
              /\ Len(key.codeVerifier) > 0
              /\ key.challengeMethod = prev.challengeMethod
              /\ key.codeVerifierLen = prev.codeVerifierLen
              /\ (op.name = "CodeVerifier" => ret.str = key.codeVerifier)
    /\ (op.name \in Accessors /\ Len(prev.codeVerifier) > 0)
           => /\ key = prev
              /\ (op.name = "CodeVerifier" => ret.str = prev.codeVerifier)

\* CodeVerifier was called again on a Key whose 100-byte verifier had been
\* generated, and returned it, where the random source had other bytes to
\* give: generating once more would not have given the same verifier
C13_Witness ==
    /\ origin = "New"
    /\ op.name = "CodeVerifier"
    /\ ~shared
    /\ prev.codeVerifierLen = 100
    /\ Len(prev.codeVerifier) = 100
    /\ ret.str = prev.codeVerifier
    /\ key = prev
    /\ generateCodeVerifier(100, rand) # prev.codeVerifier

\* C14: once a Key holds a verifier, set by the caller or generated, no later
\* operation and no Option applied to the Key, a second WithCodeVerifier
\* included, changes the bytes CodeVerifier() returns.  (Writes the caller
\* makes to its own slice are not operations on the Key and are left out.)
C14_VerifierImmutable ==
    /\ (Len(prev.codeVerifier) > 0 /\ op.name # "CallerWrite")
           => CodeVerifier(key, NoDraws).out = CodeVerifier(prev, NoDraws).out
    /\ (op.name = "New" /\ Len(op.opts) = 2
            /\ op.opts[1].name = "WithCodeVerifier"
            /\ ValidVerifier(op.opts[1].verifier))
           => CodeVerifier(key, NoDraws).out = op.opts[1].verifier

\* C15: every string CodeVerifier() returns from a Key built by New, the
\* verifier supplied through WithCodeVerifier or generated, has a length in
\* [43,128] and only bytes of the unreserved alphabet.
C15_ReturnedVerifierValid ==
    (origin = "New" /\ op.name = "CodeVerifier") => ValidVerifier(ret.str)

\* C16: Key.CodeChallenge() is computed on every call from the Key's current
\* method and verifier: what it returns is the transform of CodeVerifier()
\* under ChallengeMethod(), the verifier itself under plain; a further call
\* with no method change returns the same string; and after a successful
\* SetChallengeMethod(S256) on a plain Key holding a verifier the challenge
\* is no longer the verifier but its S256 transform, the verifier unchanged.
C16_ChallengeRecomputed ==
    /\ op.name = "CodeChallenge"
           => /\ ret.str = generateCodeChallenge(ChallengeMethod(key),
                                                  CodeVerifier(key, rand).out)
              /\ CodeChallenge(key, rand).out = ret.str
              /\ (ChallengeMethod(key) = "plain" => ret.str = key.codeVerifier)
              /\ (ChallengeMethod(key) = "S256" /\ Len(key.codeVerifier) > 0)
                     => ret.str # key.codeVerifier
    /\ (op.name = "SetChallengeMethod" /\ op.method = "S256"
            /\ prev.challengeMethod = "plain" /\ Len(prev.codeVerifier) > 0)
           => /\ ret.err = "nil"
              /\ CodeChallenge(prev, NoDraws).out = prev.codeVerifier
              /\ CodeChallenge(key, NoDraws).out
                     = generateCodeChallenge("S256", prev.codeVerifier)
              /\ CodeChallenge(key, NoDraws).out # CodeChallenge(prev, NoDraws).out
              /\ CodeVerifier(key, NoDraws).out = CodeVerifier(prev, NoDraws).out

\* a plain Key holding a verifier was raised to S256, and its challenge is
\* now the 43-character S256 transform
C16_Witness ==
    /\ op.name = "SetChallengeMethod"
    /\ op.method = "S256"
    /\ prev.challengeMethod = "plain"
    /\ Len(prev.codeVerifier) = 44
    /\ ret.err = "nil"
    /\ Len(CodeChallenge(key, NoDraws).out) = 43
    /\ CodeChallenge(prev, NoDraws).out = prev.codeVerifier

----------------------------------------------------------------------------
(* Properties of the package-level functions: of GenerateCodeVerifier     *)
(* under GenSpec, of the two others under PkgSpec.                         *)

\* C17: for every n in [43,128] GenerateCodeVerifier(n) returns no error and
\* a string of exactly n characters, each one of the 66 unreserved symbols of
\* RFC 3986 (A-Z, a-z, 0-9, "-", ".", "_", "~"): so for the draws the call
\* made, and so at every one of the n places for every value 0..65 the draw
\* of that place can yield, each value giving a symbol of its own.
C17_GeneratesRequestedLength ==
    (op.name = "GenerateCodeVerifier" /\ 43 <= op.n /\ op.n <= 128)
        => /\ ret.err = "nil"
           /\ Len(ret.str) = op.n
           /\ \A i \in 1..Len(ret.str) : ret.str[i] \in Unreserved66
           /\ Cardinality(Unreserved66) = 66
           /\ \A i \in 1..op.n :
                 /\ \A j \in 0..65 :
                       GenerateCodeVerifier(op.n, [k \in 1..op.n |->
                           IF k = i THEN j ELSE 0]).out[i] \in Unreserved66
                 /\ Cardinality({ GenerateCodeVerifier(op.n, [k \in 1..op.n |->
                           IF k = i THEN j ELSE 0]).out[i] : j \in 0..65 }) = 66

\* GenerateCodeVerifier(128) returned 128 characters, not all the same
C17_Witness ==
    /\ op.name = "GenerateCodeVerifier"
    /\ op.n = 128
    /\ ret.err = "nil"
    /\ Len(ret.str) = 128
    /\ ret.str[1] # ret.str[2]

\* C18: for every n below 43 or above 128, negative n included,
\* GenerateCodeVerifier(n) returns ErrVerifierLength and the empty string,
\* whatever the random source would have drawn.
C18_BadLengthRejected ==
    (op.name = "GenerateCodeVerifier" /\ (op.n < 43 \/ op.n > 128))
        => /\ ret.err = "ErrVerifierLength"
           /\ ret.str = <<>>
           /\ \A reader \in RandStreams :
                 GenerateCodeVerifier(op.n, reader)
                     = [out |-> <<>>, err |-> "ErrVerifierLength"]

\* GenerateCodeVerifier(129) was refused
C18_Witness ==
    /\ op.name = "GenerateCodeVerifier"
    /\ op.n = 129
    /\ ret.err = "ErrVerifierLength"
    /\ ret.str = <<>>

\* C19: GenerateCodeChallenge validates the verifier before it transforms,
\* whatever the method: a length outside [43,128] gives ErrVerifierLength,
\* also when a byte is disallowed as well (length is checked first); a valid
\* length with a disallowed byte gives ErrVerifierCharacters; and with an
\* error the challenge returned is the empty string.
C19_ValidatesBeforeTransform ==
    op.name = "GenerateCodeChallenge"
        => /\ BadLength(Len(op.verifier)) => ret.err = "ErrVerifierLength"
           /\ (~BadLength(Len(op.verifier)) /\ ~ValidVerifier(op.verifier))
                  => ret.err = "ErrVerifierCharacters"
           /\ ValidVerifier(op.verifier) => ret.err = "nil"
           /\ ret.err # "nil" => ret.str = <<>>

\* a verifier of 129 disallowed bytes, offered with method plain, was
\* refused for its length
C19_Witness ==
    /\ op.name = "GenerateCodeChallenge"
    /\ op.method = "plain"
    /\ Len(op.verifier) = 129
    /\ \A i \in 1..Len(op.verifier) : op.verifier[i] \notin UnreservedBytes
    /\ ret.err = "ErrVerifierLength"
    /\ ret.str = <<>>

\* C20: for a valid verifier v, GenerateCodeChallenge(plain, v) returns v,
\* and GenerateCodeChallenge(m, v) for any other m, S256, the empty string
\* or any other string, returns no error and the S256 challenge of v: the
\* base64url text of its SHA-256 digest, 43 characters.
C20_MethodNotValidated ==
    (op.name = "GenerateCodeChallenge" /\ ValidVerifier(op.verifier))
        => /\ ret.err = "nil"
           /\ op.method = "plain" => ret.str = op.verifier
           /\ op.method # "plain"
                  => /\ ret.str = GenerateCodeChallenge("S256", op.verifier).out
                     /\ ret.str = RawURLEncodeToString(sha256Digest(op.verifier))
                     /\ Len(ret.str) = 43

\* the empty method with a valid 128-byte verifier gave a 43-character
\* challenge
C20_Witness ==
    /\ op.name = "GenerateCodeChallenge"
    /\ op.method = ""
    /\ Len(op.verifier) = 128
    /\ ret.err = "nil"
    /\ Len(ret.str) = 43
    /\ ret.str # op.verifier

\* the 64 characters of base64url: letters, digits, "-" and "_"
Base64URLBytes ==
    (65..90) \cup (97..122) \cup (48..57) \cup {45, 95}

\* C21: under S256 the challenge of a valid verifier is the base64url text,
\* without "=" padding, of the SHA-256 digest of the verifier's bytes: 43
\* characters of the URL-safe alphabet.  The 43-character test verifier
\* gives "1u1qURRaY4QPquG83Yu2fnyEYp4d0TLhXyj6AnaEcGQ" and the 128-character
\* one gives "EF-_M9nkOE6p88FdlYXUHkBv96MeV56C_Dsqk9DGlxw".
C21_S256KnownAnswers ==
    (op.name = "GenerateCodeChallenge" /\ op.method = "S256"
        /\ ValidVerifier(op.verifier))
        => /\ ret.err = "nil"
           /\ ret.str = RawURLEncodeToString(sha256Digest(op.verifier))
           /\ Len(ret.str) = 43
           /\ \A i \in 1..Len(ret.str) : ret.str[i] \in Base64URLBytes
           /\ op.verifier = TestVerifier43 => ret.str = TestChallenge43
           /\ op.verifier = TestVerifier128 => ret.str = TestChallenge128

\* the 128-character test verifier was transformed to its expected challenge
C21_Witness ==
    /\ op.name = "GenerateCodeChallenge"
    /\ op.method = "S256"
    /\ op.verifier = TestVerifier128
    /\ ret.err = "nil"
    /\ ret.str = TestChallenge128

\* the package-level VerifyCodeVerifier has just been called
CalledVerify == origin = "package" /\ op.name = "VerifyCodeVerifier"

\* C22: VerifyCodeVerifier(plain, candidate, challenge) is true exactly when
\* candidate and challenge are the same string, whatever the two strings
\* are: empty, too short, too long or with disallowed bytes included.
C22_PlainIsEquality ==
    (CalledVerify /\ op.method = "plain")
        => (ret.ok <=> op.verifier = op.challenge)

\* under plain the four bytes "yolo" verified against themselves
C22_Witness ==
    /\ CalledVerify
    /\ op.method = "plain"
    /\ op.verifier = <<121, 111, 108, 111>>
    /\ op.challenge = op.verifier
    /\ ret.ok

\* C23: under S256, against the challenge GenerateCodeChallenge(S256, v) of
\* a valid verifier v, the candidate v is verified and every other
\* candidate, valid or not, is refused.
C23_S256RoundTrip ==
    (CalledVerify /\ op.method = "S256")
        => \A v \in {w \in PkgCandidates : ValidVerifier(w)} :
               (op.challenge = GenerateCodeChallenge("S256", v).out)
                   => (ret.ok <=> op.verifier = v)

\* the 43-character test verifier was verified against its S256 challenge
C23_Witness ==
    /\ CalledVerify
    /\ op.method = "S256"
    /\ op.verifier = TestVerifier43
    /\ op.challenge = TestChallenge43
    /\ ret.ok

\* C24: for a method that is neither plain nor S256 VerifyCodeVerifier
\* returns false, also when the candidate equals the challenge and when the
\* challenge is the S256 transform of the candidate.
C24_OtherMethodFalse ==
    (CalledVerify /\ op.method \notin LegalMethods) => ~ret.ok

\* with the empty method a valid candidate was refused against its own S256
\* challenge
C24_Witness ==
    /\ CalledVerify
    /\ op.method = ""
    /\ op.verifier = TestVerifier43
    /\ op.challenge = TestChallenge43
    /\ ~ret.ok

\* C25 as stated: for every method and every challenge, a candidate whose
\* length is outside [43,128] or that holds a disallowed byte is never
\* verified as true.
C25_Original ==
    (CalledVerify /\ ~ValidVerifier(op.verifier)) => ~ret.ok

\* C25 amended: under S256, and under any method that is not plain, such a
\* candidate is never verified as true, whatever the challenge, the S256
\* transform of the candidate's own bytes included; under plain the
\* candidate is not validated and is verified exactly when it equals the
\* challenge.  No call returns an error.
C25_InvalidCandidateFalse ==
    CalledVerify
        => /\ (op.method # "plain" /\ ~ValidVerifier(op.verifier)) => ~ret.ok
           /\ (op.method = "plain" /\ ~ValidVerifier(op.verifier))
                  => (ret.ok <=> op.verifier = op.challenge)
           /\ ret.err = "nil"

\* under S256 a candidate with a disallowed byte was refused against the
\* S256 transform of its own bytes
C25_Witness ==
    /\ CalledVerify
    /\ op.method = "S256"
    /\ op.verifier = NotTheVerifierBang
    /\ op.challenge = RawURLEncodeToString(sha256Digest(op.verifier))
    /\ ~ret.ok

\* C26 (under CharSpec): validVerifierChar accepts a byte exactly when it is
\* one of the 66 unreserved symbols, so every other ASCII byte and every
\* byte from 128 up is rejected; validateCodeVerifierCharacters returns
\* ErrVerifierCharacters exactly when some byte of its input is rejected,
\* and nil otherwise.
C26_ByteWiseExact ==
    /\ Cardinality(Unreserved66) = 66
    /\ op.name = "validVerifierChar"
           => /\ ret.ok <=> op.n \in Unreserved66
              /\ op.n >= 128 => ~ret.ok
    /\ op.name = "validateCodeVerifierCharacters"
           => /\ ret.err = "ErrVerifierCharacters"
                     <=> \E i \in 1..Len(op.verifier) :
                            op.verifier[i] \notin Unreserved66
              /\ ret.err \in {"nil", "ErrVerifierCharacters"}

\* five letters followed by the four bytes of one UTF-8 rune were refused
C26_Witness ==
    /\ op.name = "validateCodeVerifierCharacters"
    /\ Len(op.verifier) = 9
    /\ op.verifier[6] = 240
    /\ ret.err = "ErrVerifierCharacters"

----------------------------------------------------------------------------
(* Properties of option order, ownership and the Key's own verification.   *)

\* what New returns for the two options of the last New in the other order
Swapped == New(<<op.opts[2], op.opts[1]>>)

\* C27: New(WithCodeVerifierLength(n), WithCodeVerifier(v)) and
\* New(WithCodeVerifier(v), WithCodeVerifierLength(n)) can return Keys with
\* different codeVerifierLen.  They do exactly when the length-first call
\* fails: on n outside [43,128] with a valid v of another length than 43
\* (43 against Len(v)), or on an invalid v with a valid n other than 43 (n
\* against 43).  When both calls succeed both Keys have codeVerifierLen =
\* Len(v).
C27_OrderMatters ==
    \A i \in {1, 2} :
        VerifierAndLength(i) =>
            LET n == op.opts[3 - i].n
                v == op.opts[i].verifier
            IN  /\ (key.codeVerifierLen # Swapped.key.codeVerifierLen)
                       <=> \/ BadLength(n) /\ ValidVerifier(v) /\ Len(v) # 43
                           \/ ~BadLength(n) /\ ~ValidVerifier(v) /\ n # 43
                /\ (ret.err = "nil" /\ Swapped.err = "nil")
                       => /\ key.codeVerifierLen = Len(v)
                          /\ Swapped.key.codeVerifierLen = Len(v)

\* New(WithCodeVerifierLength(100), WithCodeVerifier(v)) with a disallowed
\* byte in v returned a Key with codeVerifierLen 100; the other order
\* returns one with 43
C27_Witness ==
    /\ VerifierAndLength(2)
    /\ op.opts[1].n = 100
    /\ ret.err = "ErrVerifierCharacters"
    /\ key.codeVerifierLen = 100
    /\ Swapped.key.codeVerifierLen = 43

\* C28: the Key owns its verifier bytes: once WithCodeVerifier(b) has
\* succeeded, a write the caller makes into b changes neither what
\* CodeVerifier() returns nor what CodeChallenge() returns, and leaves the
\* stored verifier valid.
C28_KeyOwnsVerifier ==
    op.name = "CallerWrite"
        => /\ CodeVerifier(key, NoDraws).out = CodeVerifier(prev, NoDraws).out
           /\ CodeChallenge(key, NoDraws).out = CodeChallenge(prev, NoDraws).out
           /\ ValidVerifier(prev.codeVerifier) => ValidVerifier(key.codeVerifier)

\* C29: a Key returned by New, with an error or without, has codeVerifierLen
\* in [43,128] after any sequence of options and calls, so the lazy
\* generation of getCodeVerifier is only ever asked for a length in [43,128]
\* and the verifier it stores has that length.
C29_LenInRange ==
    origin = "New"
        => /\ 43 <= key.codeVerifierLen /\ key.codeVerifierLen <= 128
           /\ (op.name \in Accessors /\ Len(prev.codeVerifier) = 0)
                  => /\ 43 <= prev.codeVerifierLen /\ prev.codeVerifierLen <= 128
                     /\ Len(key.codeVerifier) = prev.codeVerifierLen

\* CodeChallenge generated a verifier of the configured length 128 on a
\* Key built by New
C29_Witness ==
    /\ origin = "New"
    /\ op.name = "CodeChallenge"
    /\ Len(prev.codeVerifier) = 0
    /\ prev.codeVerifierLen = 128
    /\ Len(key.codeVerifier) = 128

\* C30 (under BuiltSpec, the Keys New built without an error): under plain
\* and under S256, in every reachable state, Key.VerifyCodeVerifier(c)
\* returns true exactly when c is the Key's own verifier, the string
\* CodeVerifier() returns; so k.VerifyCodeVerifier(k.CodeVerifier()) is true.
C30_VerifiesOwnVerifier ==
    (origin = "New" /\ op.name = "VerifyCodeVerifier")
        => (ret.ok <=> op.verifier = CodeVerifier(key, NoDraws).out)

====
